---- MODULE Spec2Model ----
(***************************************************************************)
(* Model of subdomain_enum.py: SubdomainEnumerator.enumerate() run from    *)
(* main(), its daemon worker threads draining the shared list through      *)
(* worker() / check_subdomain() / save_discovered_subdomain(), the output  *)
(* file, and the environment (the probed servers, the file system, the     *)
(* user's Ctrl-C).                                                         *)
(***************************************************************************)
EXTENDS Integers, Sequences, FiniteSets, TLC

\* ------------------------------------------------------------------ bounds
\* Longest subdomain file (in lines) and largest --threads value explored.
MaxLines == 2
MaxThreads == 2

\* ------------------------------------------------------------ input domains
Domain == "example.com"
\* Subdomain labels, the first ones of the sample list. The program never
\* looks inside a label or compares two of them, so two kinds of file are
\* explored: the labels all distinct (in the order of the sample list), and
\* one label repeated on every line (no deduplication is done).
SampleLabels == <<"www", "mail", "ftp", "admin", "test", "dev">>
Labels == {SampleLabels[i] : i \in 1..MaxLines}
\* Raw lines of the subdomain file: labels, a padded label, blank lines.
RawLines == Labels \cup {" www ", "", "  "}
\* Status codes the probed servers answer with (after redirects).
Statuses == {200, 404}
\* Exceptions requests.get raises for transport-level failures; all of them
\* are subclasses of requests.exceptions.RequestException.
NetworkFailure ==
    [dns |-> "ConnectionError", connect |-> "ConnectionError", tls |-> "SSLError",
     timeout |-> "Timeout", redirect |-> "InvalidURL"]
RequestErrors == {NetworkFailure[k] : k \in DOMAIN NetworkFailure}
\* Exceptions that are not RequestException and can escape the calls made in
\* check_subdomain (a bug in a library, a malformed answer).
UnexpectedErrors == {"IndexError", "ValueError"}
\* --threads values: type=int, so zero and negative numbers are accepted.
ThreadArgs == -1..MaxThreads

Threads == 1..MaxThreads
NoOne == 0
None == "None"
\* What one requests.get gives back: a response with a status code, or an
\* exception; NoAnswer while the request has not been made.
Response(status_code) == [kind |-> "response", status_code |-> status_code, error |-> ""]
Raised(e) == [kind |-> "raised", status_code |-> 0, error |-> e]
NoAnswer == [kind |-> "none", status_code |-> 0, error |-> ""]
NoArg == <<>>
\* What the history keeps of an answer: the status code of a response, and
\* of an exception only that one was raised.
Seen(answer) == IF answer.kind = "raised" THEN Raised("") ELSE answer

VARIABLES
    mainpc,                 \* position of the main thread in main()/enumerate()
    max_threads,            \* self.max_threads
    total_subdomains,       \* self.total_subdomains
    subdomains,             \* local list returned by load_subdomains()
    subdomain_queue,        \* the shared list the workers pop from
    started,                \* len(threads): threads created and started
    joined,                 \* threads already joined by enumerate()
    wpc,                    \* position of each worker thread
    cur,                    \* worker local: subdomain
    occ,                    \* history: index in subdomains of the popped entry
    arg,                    \* arguments of save_discovered_subdomain in flight
    exc,                    \* exception bound by "except Exception as e"
    lock,                   \* holder of self.lock, NoOne when free
    checked_count,          \* self.checked_count
    discovered_subdomains,  \* self.discovered_subdomains
    output_file,            \* lines of self.output_file
    http_out,               \* history: outcome of the HTTP request per entry
    https_out,              \* history: outcome of the HTTPS request per entry
    interrupted,            \* KeyboardInterrupt was delivered to main()
    printed,                \* what the main thread has printed, in order
    truncations,            \* history: times this run opened the output file with 'w'
    current_counts,         \* history: the values current_count was given, in order
    server,                 \* environment: what each host may answer, per scheme
    previous_runs           \* history: what earlier runs were given and left behind

vars == <<mainpc, max_threads, total_subdomains, subdomains, subdomain_queue,
          started, joined, wpc, cur, occ, arg, exc, lock, checked_count,
          discovered_subdomains, output_file, http_out, https_out, interrupted,
          printed, truncations, current_counts, server, previous_runs>>

\* What a run does not change: the servers, the runs before it.
envVars == <<server, previous_runs>>

mainVars == <<mainpc, max_threads, total_subdomains, subdomains, started, joined,
              interrupted, printed, truncations, envVars>>

\* ----------------------------------------------------------- pure functions
Min(a, b) == IF a < b THEN a ELSE b

\* str.strip() on the raw lines above.
Strip(line) ==
    CASE line = " www " -> "www"
      [] line = "  " -> ""
      [] OTHER -> line

RECURSIVE SelectLines(_)
\* [line.strip() for line in f if line.strip()]
SelectLines(lines) ==
    IF lines = <<>> THEN <<>>
    ELSE IF Strip(Head(lines)) # ""
         THEN <<Strip(Head(lines))>> \o SelectLines(Tail(lines))
         ELSE SelectLines(Tail(lines))

Explored(list) ==
    \/ \A i \in 1..Len(list) : list[i] = SampleLabels[i]
    \/ \A i \in 1..Len(list) : list[i] = SampleLabels[1]

Files == {f \in UNION {[1..n -> RawLines] : n \in 0..MaxLines} : Explored(SelectLines(f))}

\* f"{subdomain}.{self.domain}"
Fqdn(sub) == <<sub, Domain>>
\* f"http://{subdomain}.{self.domain}"
HttpUrl(sub) == <<"http://", sub, Domain>>
\* Faulty variant of HttpsUrl: the HTTPS result is saved with url instead of https_url
HttpsUrlIsUrl(sub) == <<"http://", sub, Domain>>
\* f"https://{subdomain}.{self.domain}"
HttpsUrl(sub) == <<"https://", sub, Domain>>
\* f"{subdomain} - {url} (Status: {status_code})"
DiscoveryInfo(fqdn, url, status_code) == <<fqdn, url, status_code>>

\* Faulty variant of Truncated: the file is opened for appending, its lines stay
TruncatedKeeps(file) == file
\* open(self.output_file, 'w').close() leaves the file empty
Truncated(file) == <<>>

\* Faulty variant of Written: the file is opened with 'w' for each result
WrittenOver(file, line) == <<line>>
\* with open(self.output_file, 'a') as f: f.write(f"{discovery_info}\n")
Written(file, line) == Append(file, line)

\* A line left in the output file by an earlier run.
OldLine == DiscoveryInfo(Fqdn("old"), HttpUrl("old"), 200)

\* Faulty variant of IsLive: only server errors count as not live
IsLiveBelow500(status_code) == status_code < 500
\* response.status_code < 400
IsLive(status_code) == status_code < 400

\* Faulty variant of IsRequestException: except requests.exceptions.Timeout
IsTimeout(e) == e = "Timeout"
\* except requests.exceptions.RequestException
IsRequestException(e) == e \in RequestErrors

\* except IndexError
IsIndexError(e) == e = "IndexError"

\* Faulty variant of QueueAfterPop: the entry is read but left in the list
QueuePeeked(queue) == queue

\* subdomain_queue.pop(0) removes the entry it returns
QueueAfterPop(queue) == Tail(queue)

\* Faulty variant of ReturnTrue: no return after the HTTP result is saved, the code
\* goes on to the HTTPS attempt
ReturnMissing(url) == IF url[1] = "http://" THEN "https" ELSE "pop"

\* return True after save_discovered_subdomain: check_subdomain is over and
\* the worker is back at the top of its loop
ReturnTrue(url) == "pop"

\* Faulty variant of FailedLoad: a built-in list stands in for the missing file
FailedLoadSample == <<"www">>
\* load_subdomains: except FileNotFoundError / except Exception: return []
FailedLoad == <<>>

\* if not subdomains: return
AfterLoad(loaded) == IF loaded = <<>> THEN "returned" ELSE "start"

\* Faulty variant of Released: acquire() and release() around the block, with no
\* try/finally, so an exception in the block skips the release
ReleasedUnlessRaised(holder, raised) == IF raised THEN holder ELSE NoOne
\* with self.lock: the lock is released when the block is left, whether it
\* ends or raises
Released(holder, raised) == NoOne

\* Faulty variant of NewCount: the update is lost
SameCount(count) == count
\* self.checked_count += 1
NewCount(count) == count + 1

\* Faulty variant of ThreadCount: at least one thread is started
ThreadCountAtLeastOne(threads, n) == IF threads < 1 THEN Min(1, n) ELSE Min(threads, n)
\* Faulty variant of ThreadCount: range(self.max_threads)
ThreadCountUnclamped(threads, n) == threads
\* range(min(self.max_threads, len(subdomains)))
ThreadCount(threads, n) == IF Min(threads, n) < 0 THEN 0 ELSE Min(threads, n)

\* Everything one requests.get can give back.
Answers ==
    {Response(s) : s \in Statuses} \cup {Raised(e) : e \in RequestErrors \cup UnexpectedErrors}

\* Servers about which nothing is assumed: any answer, at any request.
AnyServer == <<>>
\* What the server of a host may answer to a request with the given scheme:
\* anything, or the one answer it is known to give every time.
Offered(servers, scheme, sub) ==
    IF servers = AnyServer THEN Answers ELSE {servers[sub][scheme]}

\* Servers that give the same answer to every request for the same URL: a
\* status, a timeout, or an answer on which the HTTP request raises.
KnownServers ==
    [Labels -> [http : {Response(200), Response(404), Raised("Timeout"), Raised("IndexError")},
                https : {Response(200), Response(404)}]]

\* ---------------------------------------------------------------- initial
\* A process at the call of enumerate(), the output file empty or left by an
\* earlier run.
Started ==
    /\ mainpc = "truncate"
    /\ max_threads \in ThreadArgs
    /\ total_subdomains = 0
    /\ subdomains = <<>>
    /\ subdomain_queue = <<>>
    /\ started = 0
    /\ joined = 0
    /\ wpc = [w \in Threads |-> "idle"]
    /\ cur = [w \in Threads |-> None]
    /\ occ = [w \in Threads |-> 0]
    /\ arg = [w \in Threads |-> NoArg]
    /\ exc = [w \in Threads |-> None]
    /\ lock = NoOne
    /\ checked_count = 0
    /\ discovered_subdomains = <<>>
    /\ output_file \in {<<>>, <<OldLine>>}
    /\ http_out = [i \in 1..MaxLines |-> NoAnswer]
    /\ https_out = [i \in 1..MaxLines |-> NoAnswer]
    /\ interrupted = FALSE
    /\ printed = <<>>
    /\ truncations = 0
    /\ current_counts = <<>>
    /\ previous_runs = <<>>

Init == Started /\ server = AnyServer

\* ------------------------------------------------------------- main thread
workerVars == <<wpc, cur, occ, arg, exc>>
sharedVars == <<lock, checked_count, current_counts, discovered_subdomains, http_out,
               https_out>>

\* open(self.output_file, 'w').close(); an OSError is caught in main().
Truncate ==
    /\ mainpc = "truncate"
    /\ \/ /\ output_file' = Truncated(output_file)
          /\ truncations' = truncations + 1
          /\ mainpc' = "load"
          /\ printed' = printed
       \/ \* print(f"[ERROR] An error occurred: {e}")
          /\ output_file' = output_file
          /\ truncations' = truncations
          /\ mainpc' = "returned"
          /\ printed' = Append(printed, "[ERROR] An error occurred")
    /\ UNCHANGED <<envVars, max_threads, total_subdomains, subdomains, subdomain_queue, started,
                   joined, interrupted, workerVars, sharedVars>>

\* subdomains = self.load_subdomains(); if not subdomains: return;
\* subdomain_queue = subdomains.copy()
Load ==
    /\ mainpc = "load"
    /\ \/ \E f \in Files :
            LET loaded == SelectLines(f) IN
            /\ total_subdomains' = Len(loaded)
            /\ subdomains' = loaded
            /\ subdomain_queue' = loaded
            /\ mainpc' = AfterLoad(loaded)
            /\ printed' = Append(printed, "[INFO] Loaded")
       \/ \* FileNotFoundError or another error while reading
          /\ subdomains' = FailedLoad
          /\ subdomain_queue' = FailedLoad
          /\ mainpc' = AfterLoad(FailedLoad)
          /\ printed' = Append(printed, "[ERROR] File")
          /\ UNCHANGED total_subdomains
    /\ UNCHANGED <<envVars, max_threads, started, joined, interrupted, truncations, output_file,
                   workerVars, sharedVars>>

\* for i in range(min(...)): t = Thread(target=self.worker); t.start()
StartThread ==
    /\ mainpc = "start"
    /\ IF started < ThreadCount(max_threads, Len(subdomains))
       THEN /\ started' = started + 1
            /\ wpc' = [wpc EXCEPT ![started + 1] = "pop"]
            /\ mainpc' = mainpc
       ELSE /\ mainpc' = "join"
            /\ UNCHANGED <<started, wpc>>
    /\ UNCHANGED <<envVars, max_threads, total_subdomains, subdomains, subdomain_queue, joined,
                   interrupted, printed, truncations, cur, occ, arg, exc, output_file,
                   sharedVars>>

\* for t in threads: t.join()
Join ==
    /\ mainpc = "join"
    /\ IF joined < started
       THEN /\ wpc[joined + 1] = "done"
            /\ joined' = joined + 1
            /\ mainpc' = mainpc
       ELSE /\ mainpc' = "report"
            /\ joined' = joined
    /\ UNCHANGED <<envVars, max_threads, total_subdomains, subdomains, subdomain_queue, started,
                   interrupted, printed, truncations, output_file, workerVars,
                   sharedVars>>

\* the [COMPLETE] / [STATS] / [SUMMARY] prints, then enumerate() returns
Report ==
    /\ mainpc = "report"
    /\ mainpc' = "returned"
    /\ printed' = Append(printed, "[COMPLETE] [STATS] [SUMMARY]")
    /\ UNCHANGED <<envVars, max_threads, total_subdomains, subdomains, subdomain_queue, started,
                   joined, interrupted, truncations, output_file, workerVars, sharedVars>>

\* Ctrl-C while main() is inside enumerate(): except KeyboardInterrupt
Interrupt ==
    /\ mainpc \in {"truncate", "load", "start", "join", "report"}
    /\ mainpc' = "returned"
    /\ interrupted' = TRUE
    /\ printed' = Append(printed, "[INFO] Enumeration interrupted by user")
    /\ UNCHANGED <<envVars, max_threads, total_subdomains, subdomains, subdomain_queue, started,
                   joined, truncations, output_file, workerVars, sharedVars>>

\* main() returns and the interpreter exits: daemon threads (t.daemon = True)
\* are not waited for, they stop wherever they are. The memory of the process
\* is gone; the output file stays.
Exit ==
    /\ mainpc = "returned"
    /\ mainpc' = "exited"
    /\ wpc' = [w \in Threads |->
                 IF wpc[w] \in {"idle", "done"} THEN wpc[w] ELSE "killed"]
    /\ cur' = [w \in Threads |-> None]
    /\ occ' = [w \in Threads |-> 0]
    /\ arg' = [w \in Threads |-> NoArg]
    /\ exc' = [w \in Threads |-> None]
    /\ lock' = NoOne
    /\ total_subdomains' = 0
    /\ subdomains' = <<>>
    /\ subdomain_queue' = <<>>
    /\ started' = 0
    /\ joined' = 0
    /\ checked_count' = 0
    /\ current_counts' = <<>>
    /\ discovered_subdomains' = <<>>
    /\ http_out' = [i \in 1..MaxLines |-> NoAnswer]
    /\ https_out' = [i \in 1..MaxLines |-> NoAnswer]
    /\ UNCHANGED <<envVars, max_threads, interrupted, printed, truncations, output_file>>

\* ----------------------------------------------------------- worker threads
\* subdomain = subdomain_queue.pop(0); IndexError on the empty list: break
Pop(w) ==
    /\ wpc[w] = "pop"
    /\ IF subdomain_queue = <<>>
       THEN /\ wpc' = [wpc EXCEPT ![w] = "done"]
            /\ UNCHANGED <<subdomain_queue, cur, occ>>
       ELSE /\ cur' = [cur EXCEPT ![w] = Head(subdomain_queue)]
            /\ occ' = [occ EXCEPT ![w] = Len(subdomains) - Len(subdomain_queue) + 1]
            /\ subdomain_queue' = QueueAfterPop(subdomain_queue)
            /\ wpc' = [wpc EXCEPT ![w] = "count"]
    /\ UNCHANGED <<mainVars, arg, exc, output_file, sharedVars>>

\* with self.lock: self.checked_count += 1; ... The block takes the lock,
\* cannot raise or wait inside, and releases it: one step, taken when the lock
\* is free.
RecordAttempt(w) ==
    /\ wpc[w] = "count"
    /\ lock = NoOne
    /\ checked_count' = NewCount(checked_count)
    /\ current_counts' = Append(current_counts, checked_count')
    /\ wpc' = [wpc EXCEPT ![w] = "http"]
    /\ UNCHANGED <<mainVars, subdomain_queue, cur, occ, arg, exc, lock,
                   discovered_subdomains, output_file, http_out, https_out>>

\* The locals of check_subdomain are dead once it is left.
Forget(w) ==
    /\ cur' = [cur EXCEPT ![w] = None]
    /\ occ' = [occ EXCEPT ![w] = 0]

\* One requests.get inside its try block: a status below 400 calls
\* save_discovered_subdomain, a RequestException is passed over, and anything
\* else leaves check_subdomain for the handlers of worker().
AfterRequest(w, url, answer, fallthrough) ==
    IF answer.kind = "response" /\ IsLive(answer.status_code)
    THEN /\ wpc' = [wpc EXCEPT ![w] = "save"]
         /\ arg' = [arg EXCEPT ![w] = <<Fqdn(cur[w]), url, answer.status_code>>]
         /\ UNCHANGED <<cur, occ, exc>>
    ELSE IF answer.kind = "response" \/ IsRequestException(answer.error)
    THEN /\ wpc' = [wpc EXCEPT ![w] = fallthrough]
         /\ IF fallthrough = "pop" THEN Forget(w) ELSE UNCHANGED <<cur, occ>>
         /\ UNCHANGED <<arg, exc>>
    ELSE /\ wpc' = [wpc EXCEPT ![w] = "except"]
         /\ exc' = [exc EXCEPT ![w] = answer.error]
         /\ Forget(w)
         /\ arg' = arg

\* requests.get(url, ...): the HTTP attempt
HttpGet(w) ==
    /\ wpc[w] = "http"
    /\ \E answer \in Answers :
         /\ answer \in Offered(server, "http", cur[w])
         /\ http_out' = [http_out EXCEPT ![occ[w]] = Seen(answer)]
         /\ AfterRequest(w, HttpUrl(cur[w]), answer, "https")
    /\ UNCHANGED <<mainVars, subdomain_queue, lock, checked_count, current_counts,
                   discovered_subdomains, output_file, https_out>>

\* requests.get(https_url, ..., verify=False): the HTTPS attempt; return False
\* takes the worker back to the top of its loop
HttpsGet(w) ==
    /\ wpc[w] = "https"
    /\ \E answer \in Answers :
         /\ answer \in Offered(server, "https", cur[w])
         /\ https_out' = [https_out EXCEPT ![occ[w]] = Seen(answer)]
         /\ AfterRequest(w, HttpsUrl(cur[w]), answer, "pop")
    /\ UNCHANGED <<mainVars, subdomain_queue, lock, checked_count, current_counts,
                   discovered_subdomains, output_file, http_out>>

\* save_discovered_subdomain: with self.lock: ... self.discovered_subdomains.append
SaveAppend(w) ==
    /\ wpc[w] = "save"
    /\ lock = NoOne
    /\ lock' = w
    /\ discovered_subdomains' =
           Append(discovered_subdomains, DiscoveryInfo(arg[w][1], arg[w][2], arg[w][3]))
    /\ wpc' = [wpc EXCEPT ![w] = "write"]
    /\ UNCHANGED <<mainVars, subdomain_queue, cur, occ, arg, exc, checked_count,
                   current_counts, output_file, http_out, https_out>>

\* with open(self.output_file, 'a') as f: f.write(...); the lock is released
\* when the with block is left, also by the OSError of a failed open or write,
\* which no handler of check_subdomain catches.
SaveWrite(w) ==
    /\ wpc[w] = "write"
    /\ lock = w
    /\ \/ /\ output_file' =
                Written(output_file, DiscoveryInfo(arg[w][1], arg[w][2], arg[w][3]))
          /\ lock' = Released(w, FALSE)
          /\ wpc' = [wpc EXCEPT ![w] = ReturnTrue(arg[w][2])]
          /\ IF ReturnTrue(arg[w][2]) = "pop" THEN Forget(w) ELSE UNCHANGED <<cur, occ>>
          /\ exc' = exc
       \/ /\ output_file' = output_file
          /\ lock' = Released(w, TRUE)
          /\ wpc' = [wpc EXCEPT ![w] = "except"]
          /\ exc' = [exc EXCEPT ![w] = "OSError"]
          /\ Forget(w)
    /\ arg' = [arg EXCEPT ![w] = NoArg]
    /\ UNCHANGED <<mainVars, subdomain_queue, checked_count, current_counts,
                   discovered_subdomains, http_out, https_out>>

\* the handlers of worker(): except IndexError: break;
\* except Exception as e: print(...) and the loop goes on
ThreadError(w) ==
    /\ wpc[w] = "except"
    /\ wpc' = [wpc EXCEPT ![w] = IF IsIndexError(exc[w]) THEN "done" ELSE "pop"]
    /\ exc' = [exc EXCEPT ![w] = None]
    /\ UNCHANGED <<mainVars, subdomain_queue, cur, occ, arg, output_file, sharedVars>>

Worker(w) ==
    \/ Pop(w)
    \/ RecordAttempt(w)
    \/ HttpGet(w)
    \/ HttpsGet(w)
    \/ SaveAppend(w)
    \/ SaveWrite(w)
    \/ ThreadError(w)

Next ==
    \/ Truncate
    \/ Load
    \/ StartThread
    \/ Join
    \/ Report
    \/ Interrupt
    \/ Exit
    \/ \E w \in Threads : Worker(w)

Spec == Init /\ [][Next]_vars

\* The interpreter runs every thread that can run: the main thread goes on
\* with its next statement, a request returns or times out, a thread that
\* waits for a lock that stays free gets it. Nothing makes the user press
\* Ctrl-C.
Fairness ==
    /\ WF_vars(Truncate)
    /\ WF_vars(Load)
    /\ WF_vars(StartThread)
    /\ WF_vars(Join)
    /\ WF_vars(Report)
    /\ WF_vars(Exit)
    /\ \A w \in Threads : WF_vars(Worker(w))

FairSpec == Spec /\ Fairness

Printed(text) == \E k \in DOMAIN printed : printed[k] = text
Range(lines) == {lines[k] : k \in DOMAIN lines}

\* The program is run a second time, after a run with at least one thread
\* that ended with its report and lost no write: a new process, with its own
\* --threads, finds the output file as the first run left it.
Restart ==
    /\ mainpc = "returned"
    /\ previous_runs = <<>>
    /\ ~interrupted
    /\ Printed("[COMPLETE] [STATS] [SUMMARY]")
    /\ max_threads >= 1
    /\ Range(output_file) = Range(discovered_subdomains)
    /\ previous_runs' = <<[list |-> subdomains, log |-> output_file]>>
    /\ mainpc' = "truncate"
    /\ max_threads' \in ThreadArgs
    /\ printed' = <<>>
    /\ truncations' = 0
    /\ total_subdomains' = 0
    /\ subdomains' = <<>>
    /\ subdomain_queue' = <<>>
    /\ started' = 0
    /\ joined' = 0
    /\ wpc' = [w \in Threads |-> "idle"]
    /\ cur' = [w \in Threads |-> None]
    /\ occ' = [w \in Threads |-> 0]
    /\ arg' = [w \in Threads |-> NoArg]
    /\ exc' = [w \in Threads |-> None]
    /\ lock' = NoOne
    /\ checked_count' = 0
    /\ current_counts' = <<>>
    /\ discovered_subdomains' = <<>>
    /\ http_out' = [i \in 1..MaxLines |-> NoAnswer]
    /\ https_out' = [i \in 1..MaxLines |-> NoAnswer]
    /\ UNCHANGED <<interrupted, output_file, server>>

NextTwoRuns ==
    \/ Next
    \/ Restart

\* Two successive runs against servers that answer identically.
InitTwoRuns == Started /\ server \in KnownServers

SpecTwoRuns == InitTwoRuns /\ [][NextTwoRuns]_vars

\* ------------------------------------------------------------------ claims
\* enumerate() has joined every thread it started.
AllJoined == mainpc = "report"
\* A run is in progress or just over: the process still exists.
Running == mainpc # "exited"

Occurrences(l) == {i \in DOMAIN subdomains : subdomains[i] = l}
EntriesFor(lines, l) == {k \in DOMAIN lines : lines[k][1] = Fqdn(l)}
LiveAnswer(answer) == answer.kind = "response" /\ answer.status_code < 400
Answered(answer) == answer # NoAnswer

\* C1: for every number of candidates N and every worker count W >= 1 (also
\* W > N), once enumerate() has joined all workers checked_count equals N.
C1_CheckedCountIsTotal ==
    (AllJoined /\ max_threads >= 1) => checked_count = Len(subdomains)

\* C2: every entry of the work queue is dequeued by exactly one worker: no two
\* workers hold the same entry, and (with at least one worker configured) once
\* all workers are joined no entry is left in the queue.
C2_EachEntryDequeuedOnce ==
    /\ \A v, w \in Threads : (v # w /\ occ[v] # 0) => occ[v] # occ[w]
    /\ (AllJoined /\ max_threads >= 1) => subdomain_queue = <<>>

\* C3: during a run, for every candidate there are never more live verdicts in
\* discovered_subdomains, nor more lines in the output file, than the
\* candidate has occurrences in the input: at most one per occurrence.
C3_AtMostOneVerdictPerCandidate ==
    (Running /\ mainpc # "truncate") =>
        \A l \in Labels :
            /\ Cardinality(EntriesFor(discovered_subdomains, l)) <= Cardinality(Occurrences(l))
            /\ Cardinality(EntriesFor(output_file, l)) <= Cardinality(Occurrences(l))

\* C3 witness: a run over two candidates ended with one verdict for each, in
\* memory and in the file.
C3_Witness ==
    /\ AllJoined
    /\ Len(subdomains) = 2
    /\ Len(discovered_subdomains) = 2
    /\ Len(output_file) = 2

\* The entries a live candidate is expected to leave, written out.
ExpectHttp(l, code) == <<<<l, "example.com">>, <<"http://", l, "example.com">>, code>>
ExpectHttps(l, code) == <<<<l, "example.com">>, <<"https://", l, "example.com">>, code>>
ExpectedEntries ==
    {ExpectHttp(l, c) : l \in Labels, c \in Statuses} \cup
    {ExpectHttps(l, c) : l \in Labels, c \in Statuses}
\* The verdict the answers given for entry i call for: <<entry>> or <<>>.
Verdict(i) ==
    IF LiveAnswer(http_out[i])
    THEN <<ExpectHttp(subdomains[i], http_out[i].status_code)>>
    ELSE IF LiveAnswer(https_out[i])
    THEN <<ExpectHttps(subdomains[i], https_out[i].status_code)>>
    ELSE <<>>
Times(lines, e) == Cardinality({k \in DOMAIN lines : lines[k] = e})
Saving(w, i, e) == occ[w] = i /\ wpc[w] = "save" /\ arg[w] = e

C5_LogAgreesWithMemory ==
    (Running /\ started >= 1 /\ lock = NoOne) => output_file = discovered_subdomains

\* C6: for a candidate whose HTTP request returned a status below 400 no HTTPS
\* request is ever issued, and the verdict being saved or already recorded
\* carries the http:// URL and the status of the HTTP response.
C6_HttpShortCircuit ==
    Running =>
        \A i \in DOMAIN subdomains :
            LiveAnswer(http_out[i]) =>
                LET e == ExpectHttp(subdomains[i], http_out[i].status_code) IN
                /\ https_out[i] = NoAnswer
                /\ \/ \E w \in Threads : Saving(w, i, e)
                   \/ e \in Range(discovered_subdomains)

\* C6 witness: the run is over and a candidate answered on HTTP is recorded.
C6_Witness ==
    /\ AllJoined
    /\ \E i \in DOMAIN subdomains :
        /\ LiveAnswer(http_out[i])
        /\ ExpectHttp(subdomains[i], 200) \in Range(output_file)

\* C7: for a candidate whose HTTP attempt returned 400 or more or raised a
\* request error and whose HTTPS attempt returned a status below 400, the
\* verdict being saved or recorded carries the https:// URL and the status of
\* the HTTPS response; there is one entry for it and none with the http:// URL.
C7_HttpsFallback ==
    Running =>
        \A i \in DOMAIN subdomains :
            (Answered(http_out[i]) /\ ~LiveAnswer(http_out[i]) /\ LiveAnswer(https_out[i])) =>
                LET l == subdomains[i]
                    e == ExpectHttps(l, https_out[i].status_code)
                IN  /\ \/ \E w \in Threads : Saving(w, i, e)
                       \/ e \in Range(discovered_subdomains)
                    /\ Cardinality(Occurrences(l)) = 1 =>
                        /\ Cardinality(EntriesFor(discovered_subdomains, l)) <= 1
                        /\ \A c \in Statuses :
                               ExpectHttp(l, c) \notin
                                   Range(discovered_subdomains) \cup Range(output_file)

\* C7 witness: HTTP answered 404, HTTPS answered 200, and the run is over with
\* the https:// entry in memory and in the file.
C7_Witness ==
    /\ AllJoined
    /\ \E i \in DOMAIN subdomains :
        /\ http_out[i] = Response(404)
        /\ https_out[i] = Response(200)
        /\ ExpectHttps(subdomains[i], 200) \in Range(discovered_subdomains)
        /\ ExpectHttps(subdomains[i], 200) \in Range(output_file)

\* C8: a worker that caught an unexpected error while processing a candidate
\* does not terminate while the queue still holds candidates.
C8_WorkerSurvivesAnyError ==
    [][\A w \in Threads :
         (wpc[w] = "except" /\ wpc'[w] = "done") => subdomain_queue = <<>>]_vars

\* C9: a network failure of an HTTP or HTTPS attempt (DNS, connect, TLS,
\* timeout, malformed redirect) never reaches the handlers of the worker loop,
\* and an attempt that raised never leads to a save: the verdict being saved
\* comes from a response with a status below 400 to the request for its URL.
C9_NetworkFailuresContained ==
    \A w \in Threads :
        /\ wpc[w] = "except" => exc[w] \notin {NetworkFailure[k] : k \in DOMAIN NetworkFailure}
        /\ wpc[w] = "save" =>
            IF arg[w][2][1] = "http://"
            THEN LiveAnswer(http_out[occ[w]])
            ELSE LiveAnswer(https_out[occ[w]])

\* C9 witness: an HTTP attempt raised and the worker went on to the HTTPS
\* attempt, which raised as well; the candidate is done with no result.
C9_Witness ==
    /\ AllJoined
    /\ Len(subdomains) = 1
    /\ http_out[1].kind = "raised"
    /\ https_out[1].kind = "raised"
    /\ checked_count = 1
    /\ discovered_subdomains = <<>>

\* C10: after an interrupt no worker dequeues a further candidate, and no
\* worker is stopped while its request is in flight.
C10_InterruptLetsProbesFinish ==
    [][interrupted =>
         /\ \A w \in Threads :
                (wpc[w] # "killed" /\ wpc'[w] = "killed") => wpc[w] \notin {"http", "https"}
         /\ \A w \in Threads : ~(wpc[w] = "pop" /\ wpc'[w] = "count")]_vars

\* C11: when a run was interrupted by the user, main() has caught the
\* interrupt and the summary of the results gathered so far (the counts and
\* the discovered subdomains) has been printed.
C11_InterruptGetsSummary ==
    (interrupted /\ mainpc = "returned" /\ checked_count >= 1) =>
        /\ Printed("[INFO] Enumeration interrupted by user")
        /\ Printed("[COMPLETE] [STATS] [SUMMARY]")

IsPrefix(a, b) == Len(a) <= Len(b) /\ \A k \in DOMAIN a : a[k] = b[k]

\* C12: a run opens the output file for truncation at most once, a run that
\* has started a worker has done so exactly once, the truncation is made while
\* no worker thread has been started, and once a worker is started every
\* later change of the file only adds a line after the lines already there.
C12_TruncatedOnceBeforeWorkers ==
    [][/\ truncations' <= 1
       /\ started' >= 1 => truncations' = 1
       /\ truncations' # truncations =>
              started = 0 /\ \A w \in Threads : wpc[w] = "idle"
       /\ started >= 1 => IsPrefix(output_file, output_file')]_vars

\* C12 witness: the file held a line of an earlier run, the run truncated it
\* once and its workers then wrote two lines, both still there at the join.
C12_Witness ==
    /\ AllJoined
    /\ truncations = 1
    /\ Len(output_file) = 2
    /\ output_file = discovered_subdomains

NoProbing ==
    /\ started = 0
    /\ \A w \in Threads : wpc[w] = "idle"
    /\ \A i \in 1..MaxLines : http_out[i] = NoAnswer /\ https_out[i] = NoAnswer
    /\ checked_count = 0
    /\ discovered_subdomains = <<>>

\* C13: when load_subdomains fails on the candidate file, the error is the
\* only thing the run reports, enumerate() returns, and no probing occurs: no
\* worker is started, no request is made, checked_count is 0 and
\* discovered_subdomains is empty.
C13_FailedLoadStopsTheRun ==
    Printed("[ERROR] File") =>
        /\ printed = <<"[ERROR] File">>
        /\ mainpc \in {"returned", "exited"}
        /\ NoProbing

\* C13 witness: threads were asked for, the file could not be read, and
\* enumerate() has returned.
C13_Witness ==
    /\ Printed("[ERROR] File")
    /\ mainpc = "returned"
    /\ max_threads >= 1

\* C14: with a worker count of at least 1 and a non-empty candidate list, the
\* threads started are never more than the worker count nor more than the
\* candidates, and once the start loop is over they are exactly the smaller
\* of the two.
C14_ThreadsStartedIsMin ==
    (Running /\ max_threads >= 1 /\ subdomains # <<>>) =>
        /\ started <= max_threads
        /\ started <= Len(subdomains)
        /\ Cardinality({w \in Threads : wpc[w] # "idle"}) = started
        /\ mainpc \in {"join", "report"} =>
               started = (IF max_threads < Len(subdomains)
                          THEN max_threads ELSE Len(subdomains))

\* C14 witness: two threads asked for, one candidate, one thread started.
C14_Witness ==
    /\ AllJoined
    /\ max_threads = 2
    /\ Len(subdomains) = 1
    /\ started = 1

\* C19: with a worker count of zero or less and a non-empty candidate list,
\* enumerate() starts no worker and makes no request, checked_count stays 0 and
\* discovered_subdomains empty, the queue keeps all N candidates, no error is
\* printed, and unless the user interrupts it the run ends with the report.
C19_NoWorkersWhenCountNotPositive ==
    (Running /\ max_threads <= 0 /\ subdomains # <<>>) =>
        /\ NoProbing
        /\ subdomain_queue = subdomains
        /\ ~Printed("[ERROR] An error occurred")
        /\ ~Printed("[ERROR] File")
        /\ mainpc \in {"start", "join", "report", "returned"}
        /\ (mainpc = "returned" /\ ~interrupted) =>
               printed = <<"[INFO] Loaded", "[COMPLETE] [STATS] [SUMMARY]">>

\* C19 witness: --threads -1 and two candidates; enumerate() has printed its
\* report and returned with the two candidates still in the queue.
C19_Witness ==
    /\ mainpc = "returned"
    /\ max_threads = -1
    /\ Len(subdomain_queue) = 2
    /\ Printed("[COMPLETE] [STATS] [SUMMARY]")
    /\ checked_count = 0

\* A run that stopped at the load: the file could not be read, or it gave no
\* candidate (then "Loaded 0" is all that was printed before the return).
AbortedAtLoad ==
    /\ mainpc \in {"returned", "exited"}
    /\ ~interrupted
    /\ printed \in {<<"[ERROR] File">>, <<"[INFO] Loaded">>}

\* C20: the output file is truncated before the candidate file is read: a run
\* that has reached the load has truncated the file once and the file is
\* empty until a worker is started, so a run that stops at the load (file
\* missing, unreadable, or no candidate in it) leaves the output file empty,
\* whatever an earlier run had left in it.
C20_FailedRunLeavesLogEmpty ==
    /\ (mainpc = "load" \/ Printed("[ERROR] File") \/ Printed("[INFO] Loaded")) =>
           truncations = 1
    /\ (mainpc = "load" \/ AbortedAtLoad) => output_file = <<>>

\* C20 witness: the candidate file had only blank lines, enumerate() returned
\* after the load and the output file is empty.
C20_Witness ==
    /\ AbortedAtLoad
    /\ printed = <<"[INFO] Loaded">>
    /\ mainpc = "returned"
    /\ output_file = <<>>

\* Workers that have dequeued a candidate and not yet incremented the counter.
NotYetCounted == {w \in Threads : wpc[w] = "count"}

\* C17: while the process lives, checked_count never decreases and changes
\* only by +1, in a step that takes the free lock; after every step it equals
\* the number of candidates minus the length of the queue minus the number of
\* workers that have dequeued a candidate and not yet counted it, so it is
\* between 0 and N; and the values current_count was given are one per
\* increment, each the counter just reached, all different.
C17_CounterAccounting ==
    [][mainpc' # "exited" =>
         /\ checked_count' >= checked_count
         /\ checked_count' # checked_count =>
                /\ checked_count' = checked_count + 1
                /\ lock = NoOne
                /\ current_counts' = Append(current_counts, checked_count')
         /\ checked_count' = checked_count => current_counts' = current_counts
         /\ checked_count' =
                Len(subdomains') - Len(subdomain_queue') - Cardinality(NotYetCounted')
         /\ 0 <= checked_count' /\ checked_count' <= Len(subdomains')
         /\ \A j, k \in DOMAIN current_counts' :
                j # k => current_counts'[j] # current_counts'[k]]_vars

\* C17 witness: two workers have each dequeued a candidate; one has counted
\* it and the other is still waiting to.
C17_Witness ==
    /\ Running
    /\ Len(subdomains) = 2
    /\ subdomain_queue = <<>>
    /\ checked_count = 1
    /\ current_counts = <<1>>
    /\ Cardinality(NotYetCounted) = 1

\* A worker at "with self.lock" that has not entered the block yet.
Waiting(w) == wpc[w] \in {"count", "save"}

\* The steps of the lock: it is taken only when free, its holder is inside the
\* block of save_discovered_subdomain (so at no "with self.lock" of its own),
\* the holder leaving the block leaves the lock free, also when the write
\* raised, and the counter block is entered and left with the lock free.
LockDiscipline ==
    \A w \in Threads :
        /\ (lock' = w /\ lock # w) =>
               lock = NoOne /\ wpc[w] = "save" /\ wpc'[w] = "write"
        /\ lock = w => wpc[w] = "write"
        /\ (lock = w /\ wpc'[w] # "write") => lock' = NoOne
        /\ (wpc[w] = "count" /\ wpc'[w] = "http") => lock = NoOne /\ lock' = NoOne

\* C18: the lock discipline holds at every step, and so the lock does not
\* stay held, and a worker waiting for the lock gets it, unless the process
\* exits first.
C18_LockIsDeadlockFree ==
    /\ [][LockDiscipline]_vars
    /\ \A w \in Threads : (lock = w) ~> (lock = NoOne)
    /\ \A w \in Threads : Waiting(w) ~> (wpc[w] \in {"http", "write", "killed"})

\* C18 witness: a write to the output file raised inside the block, the lock
\* is free again and another worker is waiting for it.
C18_Witness ==
    /\ \E w \in Threads : wpc[w] = "except" /\ exc[w] = "OSError"
    /\ lock = NoOne
    /\ \E w \in Threads : Waiting(w)

\* Every started worker ends, and enumerate() returns, in a run the user does
\* not interrupt.
WorkersEnd ==
    /\ \A w \in Threads : (wpc[w] # "idle") ~> (wpc[w] = "done" \/ interrupted)
    /\ (mainpc = "start") ~> (mainpc \in {"returned", "exited"})

\* C16: a worker ends only from the top of its loop, on finding the queue
\* empty; and with requests that return or time out and threads that are
\* scheduled, every started worker ends and enumerate() then returns (in a run
\* the user does not interrupt).
C16_TerminatesOnEmptyQueue ==
    /\ [][\A w \in Threads :
            (wpc[w] # "done" /\ wpc'[w] = "done") =>
                (wpc[w] = "pop" /\ subdomain_queue = <<>>)]_vars
    /\ WorkersEnd

\* C15: when a second run, with the candidate list of the first and at least
\* one thread, has ended with its report and lost no write, the output file
\* holds the same set of lines as the first run left in it.
C15_SecondRunLeavesSameLines ==
    (/\ previous_runs # <<>>
     /\ mainpc = "returned"
     /\ ~interrupted
     /\ Printed("[COMPLETE] [STATS] [SUMMARY]")
     /\ max_threads >= 1
     /\ subdomains = previous_runs[1].list
     /\ Range(output_file) = Range(discovered_subdomains)) =>
        Range(output_file) = Range(previous_runs[1].log)

====
